---- MODULE Spec2Model ----
(***************************************************************************)
(* GLAMDP language-grounding classifiers: NNDual (bag-of-words encoder),   *)
(* RNNDual (recurrent encoder, three levels) and RNNClassifier (recurrent, *)
(* one level).  The model covers what the Python code of the three classes *)
(* does itself: vocabulary construction, vectorization, the epoch /        *)
(* minibatch loop of fit and the two-stage decision of score.  The tensor  *)
(* engine (session.run on the inference graph, the optimizer) is a black   *)
(* box: a forward pass is a fixed function of the parameters it reads, its *)
(* input and the dropout mask, an optimizer step a choice of new values    *)
(* for the parameters the minimized loss depends on.                       *)
(*                                                                         *)
(* Python lists and numpy arrays are sequences here; Python index i is     *)
(* position i + 1.                                                         *)
(***************************************************************************)
EXTENDS Integers, Sequences, FiniteSets, TLC

VARIABLES
  variant,    \* "nn" (NNDual), "rnn" (RNNDual) or "single" (RNNClassifier)
  corpus,     \* l0_pc, l1_pc, l2_pc (single: pc at level 0): entries [nl, ml]
  commands,   \* l0_commands, l1_commands, l2_commands (single: commands)
  bsz,        \* self.bsz
  epochs,     \* self.epochs
  phase,      \* position inside __init__: "new", "vocab", "ready", "failed"
  word2id,    \* self.word2id
  id2word,    \* self.id2word
  max_len,    \* self.max_len (single: max(self.lengths))
  lengths,    \* self.lengths
  train_x,    \* self.train_x
  train_y,    \* self.train_y
  params,     \* the tf variables of the graph, by group
  fitst,      \* the locals of a running fit call
  last,       \* what the last call did and returned
  prev        \* history: the first score call made since the last fit call,
              \* once a later score call has been made

vars == <<variant, corpus, commands, bsz, epochs, phase, word2id, id2word,
          max_len, lengths, train_x, train_y, params, fitst, last, prev>>

----------------------------------------------------------------------------
(* Bounds of the model. *)

\* total number of corpus entries over the three levels (vocabulary runs)
MaxEntries == 2
\* total number of source tokens over all corpus entries (vocabulary runs)
MaxTokens == 3

----------------------------------------------------------------------------
(* Program constants. *)

PAD == "<<PAD>>"
UNK == "<<UNK>>"
PAD_ID == 0
UNK_ID == 1

Levels == 0 .. 2

\* Source tokens the corpora are drawn from: two ordinary words and a word
\* that is spelled like the reserved UNK entry.
CorpusTokens == {"go", "north", UNK}

----------------------------------------------------------------------------
(* Python helpers. *)

Max(S) == CHOOSE m \in S : \A x \in S : x <= m

Min2(a, b) == IF a < b THEN a ELSE b

RangeOf(s) == {s[i] : i \in 1 .. Len(s)}

\* dict.get(w, default)
Get(d, w, default) == IF w \in DOMAIN d THEN d[w] ELSE default

\* np.zeros((n), dtype=np.int32)
Zeros(n) == [i \in 1 .. n |-> 0]

\* the orders in which list(vocab) can enumerate a set
Orders(S) == {o \in [1 .. Cardinality(S) -> S] : RangeOf(o) = S}

RECURSIVE SumSeq(_)
SumSeq(s) == IF s = <<>> THEN 0 ELSE s[1] + SumSeq(Tail(s))

\* " ".join(x)
RECURSIVE Join(_)
Join(x) ==
  IF x = <<>> THEN ""
  ELSE IF Len(x) = 1 THEN x[1]
  ELSE x[1] \o " " \o Join(Tail(x))

\* {" ".join(x): i for (i, x) in enumerate(cmds)}: a later duplicate wins
Labels(cmds) ==
  [s \in {Join(cmds[i]) : i \in 1 .. Len(cmds)} |->
     Max({i \in 1 .. Len(cmds) : Join(cmds[i]) = s}) - 1]

----------------------------------------------------------------------------
(* build_vocabulary *)

\* the set vocab: every word of every source sentence of every level
VocabSet(pc) ==
  UNION {UNION {RangeOf(pc[l][e].nl) : e \in 1 .. Len(pc[l])} : l \in Levels}

\* id2word = [PAD, UNK] + list(vocab)
Id2Word(order) == <<PAD, UNK>> \o order

\* word2id = {id2word[i]: i for i in range(len(id2word))}: the last index wins
Word2Id(i2w) ==
  [w \in RangeOf(i2w) |-> Max({i \in 1 .. Len(i2w) : i2w[i] = w}) - 1]

\* max_length: the longest source sentence, 0 without any
MaxLength(pc) ==
  Max({0} \cup UNION {{Len(pc[l][e].nl) : e \in 1 .. Len(pc[l])} : l \in Levels})

\* lengths[lvl]: the source lengths, in corpus order
Lengths(pc) == [l \in Levels |-> [e \in 1 .. Len(pc[l]) |-> Len(pc[l][e].nl)]]

----------------------------------------------------------------------------
(* vectorize *)

\* BowLoop with presence flags in place of counts (nvec[...] = 1)
RECURSIVE BowLoopBinary(_, _, _, _)
BowLoopBinary(nvec, nl, i, w2i) ==
  IF i > Len(nl) THEN [err |-> "", x |-> nvec]
  ELSE LET id == Get(w2i, nl[i], UNK_ID) IN
       IF id >= Len(nvec) THEN [err |-> "IndexError", x |-> nvec]
       ELSE BowLoopBinary([nvec EXCEPT ![id + 1] = 1], nl, i + 1, w2i)

\* NNDual: for w in nl: nvec[word2id.get(w, UNK_ID)] += 1, from position i on;
\* numpy raises IndexError for an index outside the vector
RECURSIVE BowLoop(_, _, _, _)
BowLoop(nvec, nl, i, w2i) ==
  IF i > Len(nl) THEN [err |-> "", x |-> nvec]
  ELSE LET id == Get(w2i, nl[i], UNK_ID) IN
       IF id >= Len(nvec) THEN [err |-> "IndexError", x |-> nvec]
       ELSE BowLoop([nvec EXCEPT ![id + 1] = @ + 1], nl, i + 1, w2i)

\* SeqFill that stops one token early (range(n - 1))
SeqFillShort(nvec, nl, n, w2i) ==
  [i \in 1 .. Len(nvec) |-> IF i < n THEN Get(w2i, nl[i], UNK_ID) ELSE nvec[i]]

\* RNNDual, RNNClassifier: for i in range(n): nvec[i] = word2id.get(nl[i], UNK_ID)
SeqFill(nvec, nl, n, w2i) ==
  [i \in 1 .. Len(nvec) |-> IF i <= n THEN Get(w2i, nl[i], UNK_ID) ELSE nvec[i]]

\* the input vector of one source sentence
InputVector(v, nl, w2i, mlen) ==
  IF v = "nn" THEN BowLoop(Zeros(Cardinality(DOMAIN w2i)), nl, 1, w2i)
  ELSE [err |-> "", x |-> SeqFill(Zeros(mlen), nl, Len(nl), w2i)]

\* one pass of the inner loop of vectorize: the label lookup comes first
VecEntry(v, entry, labels, w2i, mlen) ==
  IF Join(entry.ml) \notin DOMAIN labels
  THEN [err |-> "KeyError", x |-> <<>>, y |-> 0]
  ELSE LET r == InputVector(v, entry.nl, w2i, mlen) IN
       [err |-> r.err, x |-> r.x, y |-> labels[Join(entry.ml)]]

\* vectorize over the three levels; errs holds, per level, the exception its
\* first failing entry raises
Vectorize(v, pc, cmds, w2i, mlen) ==
  LET ve(l, e) == VecEntry(v, pc[l][e], Labels(cmds[l]), w2i, mlen)
      bad(l) == {e \in 1 .. Len(pc[l]) : ve(l, e).err # ""}
  IN [errs |-> {ve(l, Max({-x : x \in bad(l)}) * (-1)).err : l \in {k \in Levels : bad(k) # {}}},
      x |-> [l \in Levels |-> [e \in 1 .. Len(pc[l]) |-> ve(l, e).x]],
      y |-> [l \in Levels |-> [e \in 1 .. Len(pc[l]) |-> ve(l, e).y]]]

----------------------------------------------------------------------------
(* Inputs of the vocabulary runs. *)

\* the command set every level is given in the vocabulary runs
BaseCommands == <<<<"MOVE", "N">>, <<"MOVE", "S">>>>

\* ways to cut total source tokens over n entries
LengthSplits(n) ==
  {ls \in [1 .. n -> 0 .. MaxTokens] : SumSeq(ls) <= MaxTokens}

\* entries 1..n are spread over the levels in level order
LevelSplits(n) ==
  {lv \in [1 .. n -> Levels] : \A i \in 1 .. n - 1 : lv[i] <= lv[i + 1]}

\* the sub-sequence flat[from + 1 .. from + n]
Slice(flat, from, n) == [i \in 1 .. n |-> flat[from + i]]

RECURSIVE Offset(_, _)
Offset(ls, e) == IF e = 1 THEN 0 ELSE ls[e - 1] + Offset(ls, e - 1)

\* the corpora with entries of the given levels, lengths and tokens
MakeCorpora(lv, ls, flat) ==
  LET entry(e) == [nl |-> Slice(flat, Offset(ls, e), ls[e]), ml |-> BaseCommands[1]]
      of(l) == {e \in 1 .. Len(lv) : lv[e] = l}
      first(l) == IF of(l) = {} THEN 0 ELSE (-1) * Max({-e : e \in of(l)}) - 1
  IN [l \in Levels |-> [i \in 1 .. Cardinality(of(l)) |-> entry(first(l) + i)]]

NoParams == [shared |-> 0, head |-> [l \in Levels |-> 0], lvl |-> 0]
NoFit == [active |-> FALSE, calls |-> 0]
NoCall == [op |-> "none"]

InitVec ==
  /\ variant \in {"nn", "rnn", "single"}
  /\ \E n \in 0 .. MaxEntries :
       \E lv \in LevelSplits(n), ls \in LengthSplits(n) :
         \E flat \in [1 .. SumSeq(ls) -> CorpusTokens] :
           /\ variant = "single" => \A i \in 1 .. n : lv[i] = 0
           /\ corpus = MakeCorpora(lv, ls, flat)
  /\ commands = [l \in Levels |-> BaseCommands]
  /\ bsz = 1
  /\ epochs = 1
  /\ phase = "new"
  /\ word2id = <<>>
  /\ id2word = <<>>
  /\ max_len = 0
  /\ lengths = [l \in Levels |-> <<>>]
  /\ train_x = [l \in Levels |-> <<>>]
  /\ train_y = [l \in Levels |-> <<>>]
  /\ params = NoParams
  /\ fitst = NoFit
  /\ last = NoCall
  /\ prev = NoCall

\* __init__, first half: self.build_vocabulary()
BuildVocabulary ==
  /\ phase = "new"
  /\ \E order \in Orders(VocabSet(corpus)) :
       /\ id2word' = Id2Word(order)
       /\ word2id' = Word2Id(Id2Word(order))
  /\ max_len' = MaxLength(corpus)
  /\ lengths' = Lengths(corpus)
  /\ phase' = "vocab"
  /\ last' = [op |-> "build_vocabulary"]
  /\ UNCHANGED <<variant, corpus, commands, bsz, epochs, train_x, train_y, params,
                 fitst, prev>>

\* __init__, second half: self.vectorize()
VectorizeCorpus ==
  /\ phase = "vocab"
  /\ LET r == Vectorize(variant, corpus, commands, word2id, max_len) IN
       \/ /\ r.errs = {}
          /\ train_x' = r.x
          /\ train_y' = r.y
          /\ phase' = "ready"
          /\ last' = [op |-> "vectorize", error |-> ""]
       \/ /\ \E err \in r.errs : last' = [op |-> "vectorize", error |-> err]
          /\ phase' = "failed"
          /\ UNCHANGED <<train_x, train_y>>
  /\ UNCHANGED <<variant, corpus, commands, bsz, epochs, word2id, id2word,
                 max_len, lengths, params, fitst, prev>>

NextVec == BuildVocabulary \/ VectorizeCorpus

SpecVec == InitVec /\ [][NextVec]_vars

----------------------------------------------------------------------------
(* The tensor engine.  Values are residues mod 3; a head's probabilities    *)
(* are its logits (softmax keeps their order, which is all score reads).    *)

\* values a parameter group can take
PVals == {0, 1}

\* outcomes of the random draw of one dropout layer in one session.run
DropMasks == {0, 1}

\* keep_prob fed by fit (0.5) and by score (1.0), in tenths
FitKeepProb == 5

\* score feeding the keep_prob of training
ScoreKeepProbOfFit == FitKeepProb

ScoreKeepProb == 10

\* tf.nn.dropout: with keep_prob 1.0 nothing is dropped, whatever the draw
Dropout(kp, mask) == IF kp = 10 THEN 0 ELSE mask

\* what the encoder reads of its input: the whole count vector (matmul with
\* the embedding), or the first X_len slots of the id sequence (dynamic_rnn)
InputHash(v, x, xlen) ==
  LET n == IF v = "nn" THEN Len(x) ELSE Min2(xlen, Len(x))
  IN SumSeq([i \in 1 .. n |-> i * x[i]])

\* the shared representation h1
Encode(p, v, x, xlen, kp, mask) ==
  (p.shared + InputHash(v, x, xlen) + Dropout(kp, mask)) % 3

\* an output layer with n classes on representation h
HeadOut(h, w, n) == [j \in 1 .. n |-> (h * (j - 1) + w * j + (j - 1) * (j - 1)) % 3]

\* session.run(self.lvl_probs, ...)
LvlProbs(p, v, x, xlen, kp, mask) ==
  HeadOut(Encode(p, v, x, xlen, kp, mask), p.lvl, 3)

\* session.run(self.l<k>_probs, ...) (single: self.probs); the hidden layer of
\* a level head has a dropout of its own
LevelProbs(p, v, k, n, x, xlen, kp, mask) ==
  HeadOut((Encode(p, v, x, xlen, kp, mask) + Dropout(kp, mask)) % 3, p.head[k], n)

\* argmax that keeps the last of several maxima
ArgMaxLast(y) == Max({i \in 1 .. Len(y) : y[i] = Max(RangeOf(y))}) - 1

\* np.argmax(y, axis=1) for one row: the first index holding the maximum
ArgMax(y) == (-1) * Max({-i : i \in {j \in 1 .. Len(y) : y[j] = Max(RangeOf(y))}}) - 1

----------------------------------------------------------------------------
(* score *)

\* the vector score builds from nl_command (lines 201-203 / 215-217 / 150-152)
ScoreVector(v, nl, w2i, mlen, nolen) ==
  IF v = "nn" THEN BowLoop(Zeros(Cardinality(DOMAIN w2i)), nl, 1, w2i)
  ELSE IF v = "single" /\ nolen THEN [err |-> "ValueError", x |-> <<>>]
  ELSE [err |-> "", x |-> SeqFill(Zeros(mlen), nl, Min2(Len(nl), mlen), w2i)]

\* score of a dual model once seq is built: m1, m2 are the dropout draws of
\* its two session.run calls
ScoreDual(v, nl, seq, p, cmds, m1, m2) ==
  LET lvl == LvlProbs(p, v, seq, Len(nl), ScoreKeepProb, m1)
      pred_level == ArgMax(lvl)
  IN IF pred_level \notin {0, 1, 2}
     THEN [op |-> "score", input |-> nl, error |-> "UnicodeError", seq |-> seq,
           x_len |-> Len(nl), keep |-> {ScoreKeepProb}, ran |-> <<"lvl">>,
           lvl |-> lvl, y |-> <<>>, pred_level |-> pred_level, pred_command |-> 0,
           result |-> <<>>]
     ELSE LET y == LevelProbs(p, v, pred_level, Len(cmds[pred_level]), seq, Len(nl),
                              ScoreKeepProb, m2)
              pred_command == ArgMax(y)
          IN [op |-> "score", input |-> nl, error |-> "", seq |-> seq,
              x_len |-> Len(nl), keep |-> {ScoreKeepProb}, ran |-> <<"lvl", pred_level>>,
              lvl |-> lvl, y |-> y, pred_level |-> pred_level,
              pred_command |-> pred_command,
              result |-> <<cmds[pred_level][pred_command + 1], y[pred_command + 1],
                           pred_level, lvl[pred_level + 1]>>]

\* score of RNNClassifier once seq is built
ScoreSingle(v, nl, seq, p, cmds, m1) ==
  LET y == LevelProbs(p, v, 0, Len(cmds[0]), seq, Len(nl), ScoreKeepProb, m1)
      pred_command == ArgMax(y)
  IN [op |-> "score", input |-> nl, error |-> "", seq |-> seq,
      x_len |-> Len(nl), keep |-> {ScoreKeepProb}, ran |-> <<0>>,
      lvl |-> <<>>, y |-> y, pred_level |-> 0, pred_command |-> pred_command,
      result |-> <<cmds[0][pred_command + 1], y[pred_command + 1]>>]

\* score(nl_command): what the call does and returns
ScoreCall(v, nl, w2i, mlen, nolen, p, cmds, m1, m2) ==
  LET r == ScoreVector(v, nl, w2i, mlen, nolen) IN
  IF r.err # ""
  THEN [op |-> "score", input |-> nl, error |-> r.err, seq |-> r.x,
        x_len |-> Len(nl), keep |-> {}, ran |-> <<>>, lvl |-> <<>>, y |-> <<>>,
        pred_level |-> 0, pred_command |-> 0, result |-> <<>>]
  ELSE IF v = "single" THEN ScoreSingle(v, nl, r.x, p, cmds, m1)
  ELSE ScoreDual(v, nl, r.x, p, cmds, m1, m2)

----------------------------------------------------------------------------
(* Constructed models: the corpora of the scoring and training runs. *)

\* source sentences of the corpora
Sentences == <<<<"go", "north">>, <<"go">>, <<"north", "north">>, <<>>>>

\* command sets of the three levels (single: the first)
FamCommands ==
  [l \in Levels |->
     IF l = 0 THEN <<<<"MOVE", "N">>, <<"MOVE", "S">>>>
     ELSE IF l = 1 THEN <<<<"GOTO", "ROOM">>>>
     ELSE <<<<"PUSH">>, <<"PULL">>, <<"STOP">>>>]

\* corpora with sizes[l] entries at level l
FamCorpus(sizes) ==
  [l \in Levels |->
     [i \in 1 .. sizes[l] |->
        [nl |-> Sentences[((l + i) % Len(Sentences)) + 1],
         ml |-> FamCommands[l][(i % Len(FamCommands[l])) + 1]]]]

\* every assignment of values to the parameter groups
AllParams == [shared : PVals, head : [Levels -> PVals], lvl : PVals]

\* the object __init__ leaves when vectorize raises nothing
Constructed(v, pc, cmds, order) ==
  /\ variant = v
  /\ corpus = pc
  /\ commands = cmds
  /\ id2word = Id2Word(order)
  /\ word2id = Word2Id(Id2Word(order))
  /\ max_len = MaxLength(pc)
  /\ lengths = Lengths(pc)
  /\ LET r == Vectorize(v, pc, cmds, Word2Id(Id2Word(order)), MaxLength(pc)) IN
       /\ r.errs = {}
       /\ train_x = r.x
       /\ train_y = r.y
  /\ phase = "ready"

\* corpus sizes: RNNClassifier has the one corpus
SizesFor(v, max) ==
  {sz \in [Levels -> 0 .. max] : v = "single" => (sz[1] = 0 /\ sz[2] = 0)}

\* most entries per level in the scoring runs
MaxScoreEntries == 1
\* longest nl_command scored in the scoring runs
MaxInput == 3

\* words of the scored commands: in the corpora or not, and the PAD spelling
ScoreTokens == {"go", "south", PAD}

ScoreInputs == UNION {[1 .. n -> ScoreTokens] : n \in 0 .. MaxInput}

\* a score that runs the training operation of level 0 along with its query
ScoreTraining(inputs) ==
  /\ phase = "ready"
  /\ ~fitst.active
  /\ \E nl \in inputs, m1 \in DropMasks, m2 \in DropMasks :
       last' = ScoreCall(variant, nl, word2id, max_len, lengths[0] = <<>>, params,
                         commands, m1, m2)
  /\ prev' = IF prev.op = "score" THEN prev
             ELSE IF last.op = "score" THEN last ELSE NoCall
  /\ params' = [params EXCEPT !.shared = 1 - @]
  /\ UNCHANGED <<variant, corpus, commands, bsz, epochs, phase, word2id, id2word,
                 max_len, lengths, train_x, train_y, fitst>>

\* score(nl_command) for an nl_command of the set inputs
Score(inputs) ==
  /\ phase = "ready"
  /\ ~fitst.active
  /\ \E nl \in inputs, m1 \in DropMasks, m2 \in DropMasks :
       last' = ScoreCall(variant, nl, word2id, max_len, lengths[0] = <<>>, params,
                         commands, m1, m2)
  /\ prev' = IF prev.op = "score" THEN prev
             ELSE IF last.op = "score" THEN last ELSE NoCall
  /\ UNCHANGED <<variant, corpus, commands, bsz, epochs, phase, word2id, id2word,
                 max_len, lengths, train_x, train_y, params, fitst>>

InitScore ==
  /\ \E v \in {"nn", "rnn", "single"} :
       \E sz \in SizesFor(v, MaxScoreEntries) :
         \E order \in Orders(VocabSet(FamCorpus(sz))) :
           Constructed(v, FamCorpus(sz), FamCommands, order)
  /\ bsz = 1
  /\ epochs = 1
  /\ params \in AllParams
  /\ fitst = NoFit
  /\ last = NoCall
  /\ prev = NoCall

\* one score call on a freshly built model
ScoreOnce == last.op = "none" /\ Score(ScoreInputs)

NextScore == ScoreOnce

SpecScore == InitScore /\ [][NextScore]_vars

----------------------------------------------------------------------------
(* fit *)

\* most entries per level in the training runs
MaxN == 3
\* largest batch_size in the training runs
MaxBsz == 2
\* largest epochs in the training runs
MaxEpochs == 2
\* most fit calls made on one model
MaxFits == 2

\* a range that includes its stop value
PyRangeInclusive(start, stop, step) ==
  LET n == IF stop >= start THEN (stop - start) \div step + 1 ELSE 0
  IN [i \in 1 .. n |-> start + (i - 1) * step]

\* range(start, stop, step) for a positive step
PyRange(start, stop, step) ==
  LET n == IF stop > start THEN (stop - start + step - 1) \div step ELSE 0
  IN [i \in 1 .. n |-> start + (i - 1) * step]

\* zip(a, b): pairs up to the shorter list
Zip(a, b) == [i \in 1 .. Min2(Len(a), Len(b)) |-> <<a[i], b[i]>>]

\* len(x[:c]) for a list of n elements
SliceLen(n, c) == IF c >= 0 THEN Min2(n, c) ELSE IF n + c > 0 THEN n + c ELSE 0

\* x[start:end], 0 <= start
PySlice(x, start, end) ==
  LET hi == Min2(IF end >= 0 THEN end ELSE Len(x) + end, Len(x))
  IN IF hi > start THEN [i \in 1 .. hi - start |-> x[start + i]] ELSE <<>>

\* SweepBound that ignores chunk_size (a sweep over all of the level-0 data)
SweepBoundNoChunk(v, n0, chunk) == n0

\* the bound the sweep of one epoch stops before: NNDual and RNNClassifier
\* slice the level-0 data by chunk_size, RNNDual takes chunk_size itself
SweepBound(v, n0, chunk) == IF v = "rnn" THEN chunk ELSE SliceLen(n0, chunk)

\* the (start, end) pairs of Positions, last pair first
PositionsReversed(v, n0, chunk, b) ==
  LET z == Zip(PyRange(0, SweepBound(v, n0, chunk) - b, b), PyRange(b, SweepBound(v, n0, chunk), b))
  IN [i \in 1 .. Len(z) |-> z[Len(z) + 1 - i]]

\* the (start, end) pairs one epoch steps through
Positions(v, n0, chunk, b) ==
  Zip(PyRange(0, SweepBound(v, n0, chunk) - b, b), PyRange(b, SweepBound(v, n0, chunk), b))

\* a guard that lets every level step at every position
StepGuardAlways(v, end, nk) == TRUE

\* StepGuard with <= in place of <
StepGuardInclusive(v, end, nk) == v = "single" \/ end <= nk

\* the guard of the step of level k at a position ending at end
\* (RNNClassifier steps at every position)
StepGuard(v, end, nk) == v = "single" \/ end < nk

\* an optimizer step that moves every variable of the graph
TrainStepAll(v, p, k) ==
  [shared |-> 1 - p.shared,
   head |-> [l \in Levels |-> 1 - p.head[l]],
   lvl |-> IF v = "single" THEN p.lvl ELSE 1 - p.lvl]

\* one optimizer step minimizing l<k>_loss + lvl_loss (single: loss): the
\* variables that loss depends on move, no other does
TrainStep(v, p, k) ==
  [p EXCEPT !.shared = 1 - @,
            !.head[k] = 1 - @,
            !.lvl = IF v = "single" THEN @ ELSE 1 - @]

\* the loss value a step returns
StepLoss(p, k) == 1 + ((p.shared + p.head[k] + p.lvl) % 2)

\* the feed_dict of the step of level k at (start, end)
Feed(v, k, start, end) ==
  [op |-> "step", lvl |-> k, start |-> start, end |-> end,
   x |-> PySlice(train_x[k], start, end),
   y |-> PySlice(train_y[k], start, end),
   x_len |-> IF v = "nn" THEN <<>> ELSE PySlice(lengths[k], start, end),
   lvl_y |-> IF v = "single" THEN <<>> ELSE [i \in 1 .. bsz |-> k],
   keep_prob |-> FitKeepProb]

\* fit(chunk_size) is entered: the locals before the first position
FitCall(chunk) ==
  /\ phase = "ready"
  /\ ~fitst.active
  /\ fitst.calls < MaxFits
  /\ fitst' = [active |-> TRUE, calls |-> fitst.calls + 1, chunk |-> chunk, e |-> 0,
               pos |-> Positions(variant, Len(train_x[0]), chunk, bsz),
               idx |-> 1, lvl |-> 0, loss |-> <<0, 0, 0>>, ran |-> <<>>,
               curr_loss |-> 0, batches |-> 0, reports |-> <<>>,
               steps |-> [l \in Levels |-> 0], params0 |-> params, error |-> "",
               log |-> <<>>]
  /\ last' = [op |-> "fit", chunk |-> chunk]
  /\ prev' = NoCall
  /\ UNCHANGED <<variant, corpus, commands, bsz, epochs, phase, word2id, id2word,
                 max_len, lengths, train_x, train_y, params>>

\* the `if end < len(...)` block of level fitst.lvl at the current position
FitLevel ==
  /\ fitst.active
  /\ fitst.idx <= Len(fitst.pos)
  /\ fitst.lvl \in Levels
  /\ LET k == fitst.lvl
         start == fitst.pos[fitst.idx][1]
         end == fitst.pos[fitst.idx][2]
         \* NNDual zeroes the three losses at the top of the loop body
         loss0 == IF variant = "nn" /\ k = 0 THEN <<0, 0, 0>> ELSE fitst.loss
         next == IF variant = "single" THEN 3 ELSE k + 1
     IN IF StepGuard(variant, end, Len(train_x[k]))
        THEN /\ params' = TrainStep(variant, params, k)
             /\ last' = Feed(variant, k, start, end)
             /\ fitst' = [fitst EXCEPT !.lvl = next,
                                       !.loss = [loss0 EXCEPT ![k + 1] = StepLoss(params, k)],
                                       !.ran = Append(@, k),
                                       !.steps[k] = @ + 1,
                                       !.log = Append(@, [e |-> fitst.e, start |-> start,
                                                          end |-> end, lvl |-> k])]
        ELSE /\ fitst' = [fitst EXCEPT !.lvl = next, !.loss = loss0]
             /\ UNCHANGED <<params, last>>
  /\ UNCHANGED <<variant, corpus, commands, bsz, epochs, phase, word2id, id2word,
                 max_len, lengths, train_x, train_y, prev>>

\* curr_loss += ...; batches += 1, and on to the next position
FitAccumulate ==
  /\ fitst.active
  /\ fitst.idx <= Len(fitst.pos)
  /\ fitst.lvl = 3
  /\ fitst' = [fitst EXCEPT !.curr_loss = @ + SumSeq(fitst.loss),
                            !.batches = @ + 1,
                            !.idx = @ + 1,
                            !.lvl = 0,
                            !.ran = <<>>]
  /\ UNCHANGED <<variant, corpus, commands, bsz, epochs, phase, word2id, id2word,
                 max_len, lengths, train_x, train_y, params, last, prev>>

\* print ..., curr_loss / batches, then the next epoch or the return
FitEndEpoch ==
  /\ fitst.active
  /\ fitst.idx > Len(fitst.pos)
  /\ IF fitst.batches = 0
     THEN /\ fitst' = [fitst EXCEPT !.active = FALSE, !.error = "ZeroDivisionError"]
          /\ last' = [op |-> "fit_end", error |-> "ZeroDivisionError"]
     ELSE LET rep == Append(fitst.reports, <<fitst.curr_loss, fitst.batches>>) IN
          IF fitst.e + 1 < epochs
          THEN /\ fitst' = [fitst EXCEPT !.e = @ + 1, !.idx = 1, !.lvl = 0,
                                         !.curr_loss = 0, !.batches = 0,
                                         !.reports = rep,
                                         !.pos = Positions(variant, Len(train_x[0]),
                                                           fitst.chunk, bsz)]
               /\ UNCHANGED last
          ELSE /\ fitst' = [fitst EXCEPT !.active = FALSE, !.e = @ + 1, !.reports = rep]
               /\ last' = [op |-> "fit_end", error |-> ""]
  /\ UNCHANGED <<variant, corpus, commands, bsz, epochs, phase, word2id, id2word,
                 max_len, lengths, train_x, train_y, params, prev>>

\* nl_commands scored in the training runs
FewInputs == {<<"go">>, <<"south", "go">>}

\* the training runs take one enumeration order of the set vocab
Init ==
  /\ \E v \in {"nn", "rnn", "single"} :
       \E sz \in SizesFor(v, MaxN) :
         LET order == CHOOSE o \in Orders(VocabSet(FamCorpus(sz))) : TRUE IN
           Constructed(v, FamCorpus(sz), FamCommands, order)
  /\ bsz \in 1 .. MaxBsz
  /\ epochs \in 1 .. MaxEpochs
  /\ params = NoParams
  /\ fitst = NoFit
  /\ last = NoCall
  /\ prev = NoCall

Next ==
  \/ \E chunk \in 0 .. MaxN + 1 : FitCall(chunk)
  \/ FitLevel
  \/ FitAccumulate
  \/ FitEndEpoch
  \/ Score(FewInputs)

Spec == Init /\ [][Next]_vars

----------------------------------------------------------------------------
(* Claims about the vocabulary and the vectorizer (SpecVec). *)

\* the corpus entries, as (level, position) pairs
Entries == {le \in Levels \X (1 .. MaxEntries + MaxTokens) : le[2] <= Len(corpus[le[1]])}

\* number of positions of the sentence nl that hold the word w
Occurrences(nl, w) == Cardinality({p \in 1 .. Len(nl) : nl[p] = w})

VocabBuilt == phase \in {"vocab", "ready", "failed"}

\* C1 (as stated): for every triple of corpora build_vocabulary returns
\* word2id and id2word that are mutual inverses, PAD at id 0, UNK at id 1,
\* and 2 + (number of distinct source tokens) entries.
C1_MutualInverse ==
  VocabBuilt =>
    /\ \A i \in 1 .. Len(id2word) :
         id2word[i] \in DOMAIN word2id /\ word2id[id2word[i]] = i - 1
    /\ \A w \in DOMAIN word2id :
         word2id[w] + 1 \in 1 .. Len(id2word) /\ id2word[word2id[w] + 1] = w
    /\ word2id[PAD] = PAD_ID /\ id2word[PAD_ID + 1] = PAD
    /\ word2id[UNK] = UNK_ID /\ id2word[UNK_ID + 1] = UNK
    /\ Cardinality(DOMAIN word2id) = 2 + Cardinality(VocabSet(corpus))
    /\ Len(id2word) = 2 + Cardinality(VocabSet(corpus))

\* C2: in NNDual every vector vectorize produces has one slot per vocabulary
\* entry, and the slot of an id holds the number of occurrences of that id's
\* token in the entry's source sentence (0 for a token that does not occur).
C2_BagOfWordsCounts ==
  (variant = "nn" /\ phase = "ready") =>
    \A le \in Entries :
      LET nvec == train_x[le[1]][le[2]]
          nl == corpus[le[1]][le[2]].nl
      IN /\ Len(nvec) = Cardinality(DOMAIN word2id)
         /\ \A id \in 0 .. Len(nvec) - 1 :
              nvec[id + 1] = Occurrences(nl, id2word[id + 1])

\* a bag-of-words model whose corpus holds a sentence with a repeated word
C2_Witness ==
  /\ variant = "nn" /\ phase = "ready"
  /\ \E le \in Entries : \E id \in 1 .. Len(id2word) :
       /\ train_x[le[1]][le[2]][id] = 2
       /\ \E other \in 1 .. Len(id2word) : train_x[le[1]][le[2]][other] = 0

\* C3: in the recurrent variants every vector has max_len slots, max_len
\* being the longest source sentence; slot i holds the vocabulary id of the
\* i-th source token, the slots from the true length on hold PAD_ID, and the
\* recorded length is the number of source tokens.
C3_SequencePadding ==
  (variant \in {"rnn", "single"} /\ phase = "ready") =>
    /\ \A le \in Entries : Len(corpus[le[1]][le[2]].nl) <= max_len
    /\ Entries = {} => max_len = 0
    /\ Entries # {} => \E le \in Entries : Len(corpus[le[1]][le[2]].nl) = max_len
    /\ \A le \in Entries :
         LET nvec == train_x[le[1]][le[2]]
             nl == corpus[le[1]][le[2]].nl
         IN /\ Len(nvec) = max_len
            /\ \A i \in 1 .. Len(nl) : nvec[i] = word2id[nl[i]]
            /\ \A i \in Len(nl) + 1 .. max_len : nvec[i] = PAD_ID
            /\ lengths[le[1]][le[2]] = Len(nl)

\* a recurrent model with a sentence shorter than the longest one
C3_Witness ==
  /\ variant \in {"rnn", "single"} /\ phase = "ready"
  /\ \E le \in Entries :
       /\ Len(corpus[le[1]][le[2]].nl) \in 1 .. max_len - 1
       /\ train_x[le[1]][le[2]][max_len] = PAD_ID
       /\ train_x[le[1]][le[2]][1] >= 2

----------------------------------------------------------------------------
(* Claims about score on a freshly built model (SpecScore). *)

Scored == last.op = "score"

\* positions of nl_command holding a word that no source sentence holds
AbsentAt(nl) == {q \in 1 .. Len(nl) : nl[q] \notin VocabSet(corpus)}

\* C4 (as stated): score of a dual model on an input holding a token absent
\* from all training corpora does not fail, and every such token counts in
\* slot UNK_ID of the count vector (bag of words) or leaves UNK_ID at its
\* position of the id sequence (recurrent).
C4_AbsentTokenIsUnk ==
  (Scored /\ variant \in {"nn", "rnn"} /\ AbsentAt(last.input) # {}) =>
    /\ last.error = ""
    /\ last.result # <<>>
    /\ variant = "nn" =>
         last.seq[UNK_ID + 1] = Cardinality(AbsentAt(last.input))
    /\ variant = "rnn" =>
         \A q \in AbsentAt(last.input) : q <= Len(last.seq) => last.seq[q] = UNK_ID

\* C5: score of a dual model returns a level in {0,1,2} that is the first
\* maximum of the level selector's distribution, evaluates the selector and
\* then only that level's head, and returns that level's command at an index
\* inside the command set; UnicodeError is never raised.
C5_TwoStageDecision ==
  (Scored /\ variant \in {"nn", "rnn"}) =>
    /\ last.error = ""
    /\ last.pred_level \in {0, 1, 2}
    /\ Len(last.lvl) = 3
    /\ \A j \in 1 .. 3 : last.lvl[j] <= last.lvl[last.pred_level + 1]
    /\ \A j \in 1 .. last.pred_level : last.lvl[j] < last.lvl[last.pred_level + 1]
    /\ last.ran = <<"lvl", last.pred_level>>
    /\ Len(last.y) = Len(commands[last.pred_level])
    /\ last.pred_command \in 0 .. Len(commands[last.pred_level]) - 1
    /\ last.result[1] = commands[last.pred_level][last.pred_command + 1]
    /\ last.result[3] = last.pred_level

\* a score call whose level selector has its maximum twice, at level 1 and
\* at level 2
C5_Witness ==
  /\ Scored /\ variant \in {"nn", "rnn"} /\ last.error = ""
  /\ last.pred_level = 1
  /\ last.lvl[3] = last.lvl[2]
  /\ last.lvl[1] < last.lvl[2]

----------------------------------------------------------------------------
(* Claims about fit and score on a model that is trained (Spec). *)

Dual == variant \in {"nn", "rnn"}

\* number of examples of level k
NumExamples(k) == Len(corpus[k])

TotalSteps == fitst.steps[0] + fitst.steps[1] + fitst.steps[2]

\* C6: a score call leaves the parameters, the vocabulary, the command sets
\* and the vectorized training data as they were, and the parameters change
\* only in an optimizer step of fit.
C6_ScoreIsPure ==
  [][ /\ (last'.op = "score" /\ ~fitst.active) =>
           UNCHANGED <<params, word2id, id2word, max_len, lengths, commands,
                       corpus, train_x, train_y, bsz, epochs, fitst>>
      /\ params' # params =>
           /\ fitst.active /\ fitst'.active
           /\ last'.op = "step"
           /\ fitst'.steps[last'.lvl] = fitst.steps[last'.lvl] + 1 ]_vars

\* two score calls made after a fit call that trained
C6_Witness ==
  /\ last.op = "score" /\ prev.op = "score"
  /\ fitst.calls >= 1 /\ ~fitst.active
  /\ TotalSteps >= 1
  /\ params # fitst.params0

\* C7: two score calls on the same token list with no fit call in between
\* return the same command, confidences and level, and every evaluation
\* score makes is fed keep_prob 1.0.
C7_ScoreIsRepeatable ==
  /\ (prev.op = "score" /\ last.op = "score" /\ prev.input = last.input) =>
       /\ prev.result = last.result
       /\ prev.error = last.error
  /\ last.op = "score" => \A kp \in last.keep : kp = 10

\* the same token list scored twice on a trained model, with a result
C7_Witness ==
  /\ prev.op = "score" /\ last.op = "score" /\ prev.input = last.input
  /\ last.error = "" /\ last.result # <<>>
  /\ last.keep = {10}
  /\ fitst.calls >= 1 /\ TotalSteps >= 1

\* C8: in fit of a dual model the step of level k is executed at a position
\* (start, end) exactly when end < (number of examples of level k); a level
\* with exactly batch_size examples is never stepped, and no step reaches
\* into the last batch_size-aligned range of its level.
C8_StrictStepGuard ==
  Dual =>
    /\ (fitst.active /\ fitst.lvl = 3) =>
         \A k \in Levels :
           (k \in RangeOf(fitst.ran)) <=> (fitst.pos[fitst.idx][2] < NumExamples(k))
    /\ fitst.calls >= 1 =>
         \A k \in Levels : NumExamples(k) = bsz => fitst.steps[k] = 0
    /\ last.op = "step" =>
         last.end <= bsz * ((NumExamples(last.lvl) - 1) \div bsz)

\* a position at which one level is stepped and another, whose data ends
\* exactly at the position's end, is not
C8_Witness ==
  /\ Dual /\ fitst.active /\ fitst.lvl = 3
  /\ \E k \in Levels : NumExamples(k) = fitst.pos[fitst.idx][2] /\ NumExamples(k) = bsz
  /\ fitst.ran # <<>>
  /\ fitst.e = 1

\* C9: fit(chunk_size=0) makes no optimizer step and leaves the parameters
\* as they were when it was called, in every variant.
C9_ChunkZero ==
  (fitst.calls >= 1 /\ fitst.chunk = 0) =>
    /\ TotalSteps = 0
    /\ fitst.pos = <<>>
    /\ params = fitst.params0

\* fit(0) has come to its end on a model whose level-0 data would fill
\* a position
C9_Witness ==
  /\ fitst.calls >= 1 /\ fitst.chunk = 0 /\ ~fitst.active
  /\ NumExamples(0) > bsz
  /\ params = NoParams

\* the sweep fit(chunk_size) is to visit: NNDual up to min(chunk_size, |L0|),
\* RNNDual up to chunk_size
C10_Bound == IF variant = "nn" THEN Min2(fitst.chunk, NumExamples(0)) ELSE fitst.chunk

\* C10: the positions of an epoch are exactly the ranges [(j-1)*bsz, j*bsz)
\* with j*bsz < min(chunk_size, |L0|) in NNDual and with j*bsz < chunk_size
\* in RNNDual; NNDual trains no level at a position that L0 does not have;
\* no step reads an example at index >= chunk_size.
C10_ChunkBoundsSweep ==
  (Dual /\ fitst.calls >= 1) =>
    /\ \A j \in 1 .. MaxN + 2 : (j \in 1 .. Len(fitst.pos)) <=> (j * bsz < C10_Bound)
    /\ \A j \in 1 .. Len(fitst.pos) : fitst.pos[j] = <<(j - 1) * bsz, j * bsz>>
    /\ (last.op = "step" /\ variant = "nn") => last.end < NumExamples(0)
    /\ last.op = "step" =>
         /\ last.end - 1 < fitst.chunk
         /\ Len(last.x) = last.end - last.start

\* RNNDual steps level 1 or 2 at a position that starts past the end of L0
C10_Witness ==
  /\ variant = "rnn" /\ last.op = "step"
  /\ last.lvl \in {1, 2}
  /\ last.start >= NumExamples(0)
  /\ NumExamples(0) > 0

\* C11 (as stated): a fit call in which no optimizer step fails ends
\* normally, after exactly `epochs` epochs and with one mean loss reported
\* per epoch, whatever chunk_size, batch size, epoch count and corpus sizes.
C11_FitTerminates ==
  (fitst.calls >= 1 /\ ~fitst.active) =>
    /\ fitst.error = ""
    /\ fitst.e = epochs
    /\ Len(fitst.reports) = epochs

\* the losses returned by the level steps executed at the current position
ExecutedLoss ==
  SumSeq([j \in 1 .. 3 |-> IF (j - 1) \in RangeOf(fitst.ran) THEN fitst.loss[j] ELSE 0])

\* C12 (as stated): in fit of the dual models the amount added to the
\* epoch's running total at a visited position is the sum of the losses of
\* exactly the level steps executed at that position (a level with
\* end >= its example count adds 0), and the mean reported for an epoch is
\* that total over the number of positions visited in the epoch.
C12_LossAccounting ==
  [][ Dual =>
        /\ (fitst.active /\ fitst'.active /\ fitst'.batches = fitst.batches + 1) =>
             fitst'.curr_loss = fitst.curr_loss + ExecutedLoss
        /\ (fitst.active /\ Len(fitst'.reports) = Len(fitst.reports) + 1) =>
             fitst'.reports[Len(fitst'.reports)] = <<fitst.curr_loss, Len(fitst.pos)>> ]_vars

\* C13: an optimizer step of a dual model for level k changes nothing but
\* the shared encoder parameters, the head of level k and the level-selector
\* head; the heads of the other two levels are after the step what they
\* were before it.
C13_StepFrame ==
  [][ (Dual /\ fitst.active /\ fitst'.active /\ fitst'.steps # fitst.steps) =>
        LET k == last'.lvl IN
          /\ last'.op = "step"
          /\ \A j \in Levels \ {k} : params'.head[j] = params.head[j]
          /\ params' = [params EXCEPT !.shared = params'.shared,
                                      !.head[k] = params'.head[k],
                                      !.lvl = params'.lvl] ]_vars

\* the first step of level 1 has just run, after one step of level 0: the
\* head of level 1 has moved, the head of level 2 has not
C13_Witness ==
  /\ Dual /\ last.op = "step" /\ last.lvl = 1
  /\ fitst.steps[0] = 1 /\ fitst.steps[1] = 1 /\ fitst.steps[2] = 0
  /\ params.head[1] # fitst.params0.head[1]
  /\ params.head[0] # fitst.params0.head[0]
  /\ params.head[2] = fitst.params0.head[2]

\* C14: every optimizer step of fit of a dual model for level k is fed
\* exactly batch_size examples of level k, with inputs, labels and (in the
\* recurrent variant) lengths taken at the same indices start .. start +
\* batch_size - 1, a level-selector target of batch_size elements all equal
\* to k (as many as the batch has examples), and keep-probability 0.5.
C14_StepFeed ==
  (Dual /\ last.op = "step") =>
    LET k == last.lvl IN
      /\ last.end = last.start + bsz
      /\ Len(last.x) = bsz
      /\ Len(last.y) = bsz
      /\ \A i \in 1 .. bsz :
           /\ last.x[i] = train_x[k][last.start + i]
           /\ last.y[i] = train_y[k][last.start + i]
      /\ variant = "rnn" =>
           /\ Len(last.x_len) = bsz
           /\ \A i \in 1 .. bsz : last.x_len[i] = lengths[k][last.start + i]
      /\ Len(last.lvl_y) = bsz
      /\ \A i \in 1 .. bsz : last.lvl_y[i] = k
      /\ Len(last.lvl_y) = Len(last.x)
      /\ last.keep_prob = 5

\* a step of level 2 of the recurrent model on a batch of two examples
C14_Witness ==
  /\ variant = "rnn" /\ last.op = "step"
  /\ last.lvl = 2 /\ bsz = 2
  /\ Len(last.x) = 2 /\ last.lvl_y = <<2, 2>>
  /\ Len(last.x_len) = 2

\* the steps of epoch e, in the order they ran, without the epoch number
EpochSteps(e) ==
  LET idx == {i \in 1 .. Len(fitst.log) : fitst.log[i].e = e}
      nth(n) == CHOOSE i \in idx : Cardinality({j \in idx : j < i}) = n - 1
  IN [n \in 1 .. Cardinality(idx) |->
        <<fitst.log[nth(n)].start, fitst.log[nth(n)].end, fitst.log[nth(n)].lvl>>]

\* C15: within an epoch the positions are contiguous ranges of batch_size
\* indices, pairwise disjoint and visited in ascending order; at a position
\* the level steps run in the order L0, L1, L2, and all steps of a position
\* come before every step of the next one; every epoch runs the same steps
\* on the same index ranges in the same order.
C15_EpochOrder ==
  fitst.calls >= 1 =>
    /\ \A j \in 1 .. Len(fitst.pos) :
         /\ fitst.pos[j][2] = fitst.pos[j][1] + bsz
         /\ j > 1 => fitst.pos[j][1] = fitst.pos[j - 1][2]
    /\ \A i \in 1 .. Len(fitst.log) :
         LET a == fitst.log[i] IN
           /\ \E j \in 1 .. Len(fitst.pos) : fitst.pos[j] = <<a.start, a.end>>
           /\ \A j \in i + 1 .. Len(fitst.log) :
                LET b == fitst.log[j] IN
                  \/ a.e < b.e
                  \/ a.e = b.e /\ a.end <= b.start
                  \/ a.e = b.e /\ a.start = b.start /\ a.end = b.end /\ a.lvl < b.lvl
    /\ \A e \in 1 .. fitst.e - 1 : EpochSteps(e) = EpochSteps(0)

\* a fit call of two epochs has ended, each epoch with two positions and
\* with steps of two levels at the first one
C15_Witness ==
  /\ fitst.calls >= 1 /\ ~fitst.active /\ fitst.error = ""
  /\ fitst.e = 2
  /\ Len(fitst.pos) >= 2
  /\ Len(EpochSteps(1)) >= 3
  /\ EpochSteps(1)[1][3] < EpochSteps(1)[2][3]
  /\ EpochSteps(1)[1][1] = EpochSteps(1)[2][1]

----------------------------------------------------------------------------
(* Claims about score of the recurrent variants (SpecScore). *)

\* a recurrent model built from at least one non-empty sentence, after a
\* score call
ScoredRecurrent ==
  /\ Scored
  /\ variant \in {"rnn", "single"}
  /\ variant = "single" => lengths[0] # <<>>
  /\ max_len >= 1

\* C16 (as stated): score of a recurrent variant cuts an input longer than
\* the fitted maximum length to its first max_len tokens without an error,
\* and the sequence length it passes to the encoder is the number of slots
\* filled, min(len(input), max_len), which never exceeds max_len.
C16_TruncatedLength ==
  ScoredRecurrent =>
    /\ last.error = ""
    /\ Len(last.seq) = max_len
    /\ \A i \in 1 .. Min2(Len(last.input), max_len) :
         last.seq[i] = Get(word2id, last.input[i], UNK_ID)
    /\ last.x_len = Min2(Len(last.input), max_len)
    /\ last.x_len <= max_len

----------------------------------------------------------------------------
(* Label lookup of vectorize: runs over target sequences and command sets  *)
(* (SpecLabel).                                                           *)

\* total number of corpus entries over the three levels (label runs)
MaxLabelEntries == 2

\* target sequences of the corpus entries: two commands, one token that
\* spells a whole command, and a sequence no command set holds
LabelTargets == {<<"MOVE", "N">>, <<"MOVE", "S">>, <<"MOVE N">>, <<"TURN">>}

\* command sets of the label runs: plain, short, with a repeated command,
\* and with two commands that join to the same string
LabelCommands ==
  {BaseCommands,
   <<<<"MOVE", "S">>>>,
   <<<<"MOVE", "N">>, <<"MOVE", "S">>, <<"MOVE", "N">>>>,
   <<<<"MOVE", "N">>, <<"MOVE N">>>>}

\* corpora whose e-th entry (in level order) has target mls[e]
LabelCorpora(lv, mls) ==
  LET of(l) == {e \in 1 .. Len(lv) : lv[e] = l}
      first(l) == IF of(l) = {} THEN 0 ELSE (-1) * Max({-e : e \in of(l)}) - 1
  IN [l \in Levels |->
        [i \in 1 .. Cardinality(of(l)) |-> [nl |-> <<"go">>, ml |-> mls[first(l) + i]]]]

InitLabel ==
  /\ variant \in {"nn", "rnn", "single"}
  /\ \E n \in 0 .. MaxLabelEntries :
       \E lv \in LevelSplits(n), mls \in [1 .. n -> LabelTargets] :
         /\ variant = "single" => \A i \in 1 .. n : lv[i] = 0
         /\ corpus = LabelCorpora(lv, mls)
  /\ \E cmds \in LabelCommands : commands = [l \in Levels |-> cmds]
  /\ bsz = 1
  /\ epochs = 1
  /\ phase = "new"
  /\ word2id = <<>>
  /\ id2word = <<>>
  /\ max_len = 0
  /\ lengths = [l \in Levels |-> <<>>]
  /\ train_x = [l \in Levels |-> <<>>]
  /\ train_y = [l \in Levels |-> <<>>]
  /\ params = NoParams
  /\ fitst = NoFit
  /\ last = NoCall
  /\ prev = NoCall

SpecLabel == InitLabel /\ [][NextVec]_vars

\* the joined label strings of the command set of level l are pairwise distinct
DistinctLabels(l) ==
  \A i, j \in 1 .. Len(commands[l]) :
    Join(commands[l][i]) = Join(commands[l][j]) => i = j

\* the corpus entries of the label runs, as (level, position) pairs
LabelEntries ==
  {le \in Levels \X (1 .. MaxLabelEntries + 1) : le[2] <= Len(corpus[le[1]])}

\* C17 (as stated): the label id vectorize stores for an entry is the
\* position of the entry's target sequence in its level's command set, so
\* that commands[label id] is the target sequence whenever the joined label
\* strings of the command set are pairwise distinct; an entry whose target
\* sequence is not in its level's command set makes construction fail in
\* vectorize, before any training step.
C17_LabelIsPosition ==
  /\ phase = "ready" =>
       \A le \in LabelEntries :
         LET l == le[1]
             ml == corpus[l][le[2]].ml
         IN /\ ml \in RangeOf(commands[l])
            /\ DistinctLabels(l) =>
                 /\ train_y[l][le[2]] + 1 \in 1 .. Len(commands[l])
                 /\ commands[l][train_y[l][le[2]] + 1] = ml
  /\ (phase \in {"ready", "failed"}
      /\ \E le \in LabelEntries : corpus[le[1]][le[2]].ml \notin RangeOf(commands[le[1]])) =>
       /\ phase = "failed"
       /\ last.error = "KeyError"
       /\ params = NoParams /\ fitst = NoFit

====
